---- MODULE Spec2Model ----
(***************************************************************************)
(* Civic Issue Detection API (heck1/main.py): the FastAPI service that     *)
(* loads a two-headed Keras model at startup and answers POST /predict,    *)
(* GET /health and GET /.                                                  *)
(*                                                                         *)
(* Conventions of the model                                                *)
(*  - Python strings that the code takes apart (file names, extensions)    *)
(*    are sequences of one-character strings; other strings are strings.   *)
(*  - Python None is the record None; every nullable value is a record.    *)
(*  - Python indices are 0-based, TLA+ sequences 1-based: an index idx of   *)
(*    the code reads element idx + 1 of the sequence.                      *)
(*  - A probability is an integer number of probability units.             *)
(*  - An image is its colour mode, its size and the set of sample values   *)
(*    its pixels hold; an array is its shape and the set of its values,    *)
(*    a value n / d being the pair <<n, d>>.                               *)
(*  - A call that may raise returns [raised, exc, value, calls]; calls is  *)
(*    the sequence of collaborator calls it made.                          *)
(***************************************************************************)
EXTENDS Integers, Sequences, FiniteSets, TLC

VARIABLES phase, modelFile, model, reqs, health, rootResp

vars == <<phase, modelFile, model, reqs, health, rootResp>>

\* ------------------------------------------------------------------ bounds
\* Number of clients with a /predict request in flight at once.
NumClients == 2
\* Largest probability unit a model output holds.
MaxProb == 2
\* Largest width and height of an uploaded image.
MaxDim == 2

Clients == 1 .. NumClients

None == [type |-> "NoneType"]

\* ----------------------------------------------------------- configuration
MODEL_INPUT_HEIGHT == 224
MODEL_INPUT_WIDTH == 224
MODEL_INPUT_SIZE == <<MODEL_INPUT_HEIGHT, MODEL_INPUT_WIDTH>>

ISSUE_CLASSES == <<"pothole", "garbage", "broken_streetlight", "waterlogging">>
SEVERITY_CLASSES == <<"low", "medium", "high">>

ALLOWED_EXTENSIONS ==
    { <<".", "j", "p", "g">>, <<".", "j", "p", "e", "g">>, <<".", "p", "n", "g">>,
      <<".", "J", "P", "G">>, <<".", "J", "P", "E", "G">>, <<".", "P", "N", "G">> }

HTTP_400_BAD_REQUEST == 400
HTTP_500_INTERNAL_SERVER_ERROR == 500
HTTP_200_OK == 200

\* Full scale of an 8-bit pixel, the divisor of the normalisation.
PIXEL_SCALE == 255

\* -------------------------------------------------------------- exceptions
Exc(type, msg) == [type |-> type, msg |-> msg]
HTTPException(status_code, detail, cause) ==
    [type |-> "HTTPException", status_code |-> status_code, msg |-> detail,
     cause |-> cause]

Raise(e, calls) == [raised |-> TRUE, exc |-> e, value |-> None, calls |-> calls]
Return(v, calls) == [raised |-> FALSE, exc |-> None, value |-> v, calls |-> calls]

\* ------------------------------------------------------- os.path.splitext
\* str.rfind, 1-based: the last position of ch in p, 0 when there is none.
RFind(p, ch) ==
    LET at == {i \in 1 .. Len(p) : p[i] = ch}
    IN  IF at = {} THEN 0 ELSE CHOOSE i \in at : \A j \in at : j <= i

\* os.path.splitext(p): the extension starts at the last dot of the last path
\* component, unless that component's name holds leading dots only.
splitext(p) ==
    LET sepIndex == RFind(p, "/")
        dotIndex == RFind(p, ".")
    IN  IF /\ dotIndex > sepIndex
           /\ \E k \in (sepIndex + 1) .. (dotIndex - 1) : p[k] # "."
        THEN <<SubSeq(p, 1, dotIndex - 1), SubSeq(p, dotIndex, Len(p))>>
        ELSE <<p, <<>>>>

\* ------------------------------------------------------------------ images
\* Number of bands of a PIL colour mode.
Bands(mode) ==
    CASE mode = "RGB" -> 3
      [] mode = "RGBA" -> 4
      [] mode = "CMYK" -> 4
      [] OTHER -> 1

\* Pillow's CLIP8: every band of an RGB image is an unsigned 8-bit value.
CLIP8(v) == IF v < 0 THEN 0 ELSE IF v > PIXEL_SCALE THEN PIXEL_SCALE ELSE v

\* Image.open(io.BytesIO(image_bytes)): identifies the format from the header
\* and raises when there is none; the pixel data is not read yet.
ImageOpen(image_bytes) ==
    IF image_bytes.format \in {"none", "garbage"}
    THEN Raise(Exc("UnidentifiedImageError", "cannot identify image file"),
               <<"Image.open">>)
    ELSE Return([type |-> "Image", mode |-> image_bytes.mode,
                 width |-> image_bytes.width, height |-> image_bytes.height,
                 pix |-> image_bytes.pix,
                 loadable |-> image_bytes.format = "image"],
                <<"Image.open">>)

\* The samples of the RGB image that Pillow's converters make of the samples of
\* an image of the given mode: grey levels are copied to the three bands, alpha
\* is dropped, CMYK inks are subtracted from white, 32-bit integers are clipped.
ConvertSamples(mode, pix) ==
    CASE mode = "CMYK" -> {CLIP8(PIXEL_SCALE - c - k) : c \in pix, k \in pix}
      [] mode = "I" -> {CLIP8(v) : v \in pix}
      [] OTHER -> pix

\* image.convert("RGB"): loads the pixel data (and raises on a truncated file),
\* then yields a 3-band image of 8-bit values.
ImageConvertRGB(image) ==
    IF ~image.loadable
    THEN Raise(Exc("OSError", "image file is truncated"), <<"image.convert">>)
    ELSE Return([image EXCEPT !.mode = "RGB",
                              !.pix = ConvertSamples(image.mode, image.pix)],
                <<"image.convert">>)

\* Overshoot of the Lanczos kernel (it has negative lobes) on the samples.
LanczosRinging == {-16, 0, 16}

\* image.resize(size, LANCZOS): loads the pixel data, then yields an image of
\* the given (width, height) in the same mode, its 8-bit samples clipped.
ImageResize(image, size) ==
    IF ~image.loadable
    THEN Raise(Exc("OSError", "image file is truncated"), <<"image.resize">>)
    ELSE Return([image EXCEPT !.width = size[1], !.height = size[2],
                              !.pix = {CLIP8(v + d) : v \in image.pix,
                                                      d \in LanczosRinging}],
                <<"image.resize">>)

\* np.array(image, dtype=np.float32): rows x columns (x bands).
NpArray(image) ==
    [type |-> "ndarray",
     shape |-> IF Bands(image.mode) = 1
               THEN <<image.height, image.width>>
               ELSE <<image.height, image.width, Bands(image.mode)>>,
     vals |-> {<<v, 1>> : v \in image.pix}]

\* Variant of Normalize: the division by 255.0 is left out.
NormalizeSkipped(img_array) == img_array

\* img_array / 255.0
Normalize(img_array) ==
    [img_array EXCEPT !.vals = {<<v[1], v[2] * PIXEL_SCALE>> : v \in img_array.vals}]

\* np.expand_dims(img_array, axis=0)
ExpandDims(img_array) == [img_array EXCEPT !.shape = <<1>> \o img_array.shape]

\* preprocess_image(image_bytes): every exception of the body is re-raised as
\* ValueError.
preprocess_image(image_bytes) ==
    LET opened == ImageOpen(image_bytes)
        wrap(r, calls) ==
            Raise(Exc("ValueError", "Image preprocessing failed"), calls \o r.calls)
    IN  IF opened.raised THEN wrap(opened, <<>>)
        ELSE
        LET converted == IF opened.value.mode # "RGB"
                         THEN ImageConvertRGB(opened.value)
                         ELSE Return(opened.value, <<>>)
            calls1 == opened.calls
        IN  IF converted.raised THEN wrap(converted, calls1)
            ELSE
            LET resized == ImageResize(converted.value, MODEL_INPUT_SIZE)
                calls2 == calls1 \o converted.calls
            IN  IF resized.raised THEN wrap(resized, calls2)
                ELSE Return(ExpandDims(Normalize(NpArray(resized.value))),
                            calls2 \o resized.calls)

\* ------------------------------------------------------------------- model
\* model.predict(image_array, verbose=0) of the loaded network m: the two
\* heads' outputs for the batch of one image, as a dict keyed by head name or
\* as a list in head order, or a framework error.
ModelPredict(m, image_array) ==
    IF m.fails
    THEN Raise(Exc("InvalidArgumentError", "inference failed"), <<"model.predict">>)
    ELSE IF m.outputs = "dict"
    THEN Return([type |-> "dict",
                 issue_output |-> <<m.issue>>,
                 severity_output |-> <<m.severity>>], <<"model.predict">>)
    ELSE Return([type |-> "list", items |-> <<<<m.issue>>, <<m.severity>>>>],
                <<"model.predict">>)

\* np.argmax(v) as a left-to-right scan that keeps the first maximum; 0-based.
RECURSIVE ArgMaxScan(_, _, _)
ArgMaxScan(v, i, best) ==
    IF i > Len(v) THEN best
    ELSE ArgMaxScan(v, i + 1, IF v[i] > v[best] THEN i ELSE best)

\* Variant of argmax: a scan with >= keeps the last maximum.
RECURSIVE ArgMaxScanLast(_, _, _)
ArgMaxScanLast(v, i, best) ==
    IF i > Len(v) THEN best
    ELSE ArgMaxScanLast(v, i + 1, IF v[i] >= v[best] THEN i ELSE best)

argmaxLast(v) == ArgMaxScanLast(v, 2, 1) - 1

argmax(v) == ArgMaxScan(v, 2, 1) - 1

\* lst[idx] of a Python list, idx >= 0: IndexError past the end.
InRange(lst, idx) == idx + 1 \in 1 .. Len(lst)

\* confidence = float(issue_probs[issue_idx])
Confidence(issue_probs, issue_idx, severity_probs, severity_idx) ==
    issue_probs[issue_idx + 1]

\* predict_issue_and_severity(image_array), reading the global model m.
predict_issue_and_severity(m, image_array) ==
    IF m = None
    THEN Raise(Exc("RuntimeError", "Model not loaded. Please restart the service."),
               <<>>)
    ELSE
    LET predicted == ModelPredict(m, image_array)
        failed ==
            Raise(Exc("RuntimeError", "Model inference failed"), predicted.calls)
    IN  IF predicted.raised THEN failed
        ELSE
        LET predictions == predicted.value
            issue_probs == IF predictions.type = "dict"
                           THEN predictions.issue_output[1]
                           ELSE predictions.items[1][1]
            severity_probs == IF predictions.type = "dict"
                              THEN predictions.severity_output[1]
                              ELSE predictions.items[2][1]
            issue_idx == argmax(issue_probs)
            severity_idx == argmax(severity_probs)
        IN  IF ~InRange(ISSUE_CLASSES, issue_idx) THEN failed
            ELSE IF ~InRange(SEVERITY_CLASSES, severity_idx) THEN failed
            ELSE Return([type |-> "dict",
                         issue_type |-> ISSUE_CLASSES[issue_idx + 1],
                         severity |-> SEVERITY_CLASSES[severity_idx + 1],
                         confidence |-> Confidence(issue_probs, issue_idx,
                                                   severity_probs, severity_idx),
                         severity_confidence |-> severity_probs[severity_idx + 1]],
                        predicted.calls)

\* ------------------------------------------------------------- load_model
\* Variant of LoadModel: a missing or unloadable file is logged, not raised.
LoadModelSwallows(file, cur) ==
    IF ~file.exists \/ ~file.loads
    THEN [raised |-> FALSE, exc |-> None, model |-> cur]
    ELSE IF ~file.introspects
    THEN [raised |-> TRUE, exc |-> Exc("RuntimeError", "Failed to load model"),
          model |-> file.net]
    ELSE [raised |-> FALSE, exc |-> None, model |-> file.net]

\* load_model() on the model file as found on disk, cur the handle before the
\* call: the handle after it, and whether the hook raised.
LoadModel(file, cur) ==
    IF ~file.exists
    THEN [raised |-> TRUE, exc |-> Exc("FileNotFoundError", "Model file not found"),
          model |-> cur]
    ELSE IF ~file.loads
    THEN [raised |-> TRUE, exc |-> Exc("RuntimeError", "Failed to load model"),
          model |-> cur]
    ELSE IF ~file.introspects
    THEN [raised |-> TRUE, exc |-> Exc("RuntimeError", "Failed to load model"),
          model |-> file.net]
    ELSE [raised |-> FALSE, exc |-> None, model |-> file.net]

\* ---------------------------------------------------------------- requests
IdleReq ==
    [pc |-> "idle", filename |-> <<>>, image_bytes |-> None,
     image_array |-> None, result |-> None, response |-> None, calls |-> <<>>]

\* The JSON error response FastAPI makes of an HTTPException.
ErrorResponse(e) ==
    [status |-> e.status_code, detail |-> e.msg, cause |-> e.cause]

\* The except clauses of predict_issue, in order.
HandleException(e) ==
    IF e.type = "ValueError"
    THEN HTTPException(HTTP_400_BAD_REQUEST, "Image processing error", e.msg)
    ELSE IF e.type = "RuntimeError"
    THEN HTTPException(HTTP_500_INTERNAL_SERVER_ERROR, "Model inference error", e.msg)
    ELSE HTTPException(HTTP_500_INTERNAL_SERVER_ERROR, "Unexpected error", e.msg)

\* Variant of ExtensionAllowed: the extension check is left out.
ExtensionAllowedAny(file_ext) == TRUE

\* if file_ext not in ALLOWED_EXTENSIONS
ExtensionAllowed(file_ext) == file_ext \in ALLOWED_EXTENSIONS

\* if len(image_bytes) == 0
IsEmptyUpload(image_bytes) == image_bytes.len = 0

\* Variant of HealthResponse: the status does not look at the model.
HealthResponseAlwaysHealthy(m) ==
    [type |-> "HealthResponse", status |-> "healthy", model_loaded |-> m # None]

\* HealthResponse(...) of health_check, reading the global model m.
HealthResponse(m) ==
    LET model_loaded == m # None
    IN  [type |-> "HealthResponse",
         status |-> IF model_loaded THEN "healthy" ELSE "model_not_loaded",
         model_loaded |-> model_loaded]

\* ------------------------------------------------------------------ inputs
Bytes(len, format, mode, width, height, pix) ==
    [type |-> "bytes", len |-> len, format |-> format, mode |-> mode,
     width |-> width, height |-> height, pix |-> pix]

EmptyBody == Bytes(0, "none", "", 0, 0, {})
GarbageBody == Bytes(1, "garbage", "", 0, 0, {})
GreyImage == Bytes(2, "image", "L", 1, 1, {0, 255})

Network(outputs, issue, severity, fails) ==
    [type |-> "Model", outputs |-> outputs, issue |-> issue,
     severity |-> severity, fails |-> fails]

ModelFile(exists, loads, introspects, net) ==
    [exists |-> exists, loads |-> loads, introspects |-> introspects, net |-> net]

\* File names and bodies uploaded to the running service.
ServiceFilenames ==
    { <<"a", ".", "j", "p", "g">>, <<"a", ".", "J", "p", "g">>,
      <<"a", ".", "P", "N", "G">>, <<"a", ".", "t", "x", "t">> }

ServiceBodies == {EmptyBody, GarbageBody, GreyImage}

\* Networks the model file may hold: heads of the trained sizes, a severity
\* head one class short, an issue head one class long, a failing network.
ServiceNetworks ==
    { Network(o, h[1], h[2], f) :
        o \in {"dict", "list"},
        h \in { <<<<1, 2, 1, 1>>, <<0, 1, 2>>>>,
                <<<<1, 2, 1, 1>>, <<2, 1>>>>,
                <<<<0, 1, 0, 0, 2>>, <<0, 1, 2>>>> },
        f \in {FALSE} }
    \cup {Network("dict", <<1, 2, 1, 1>>, <<0, 1, 2>>, TRUE)}

ModelFiles ==
    {ModelFile(FALSE, FALSE, FALSE, None)}
    \cup {ModelFile(TRUE, FALSE, FALSE, None)}
    \cup {ModelFile(TRUE, TRUE, i, n) : i \in BOOLEAN, n \in ServiceNetworks}

\* ------------------------------------------------------------------ actions
\* Startup hook load_model, run once by the server before it serves; the
\* server serves when the hook returns and exits when it raises.
load_model ==
    /\ phase = "starting"
    /\ LET r == LoadModel(modelFile, model)
       IN  /\ model' = r.model
           /\ phase' = IF r.raised THEN "exited" ELSE "serving"
    /\ UNCHANGED <<modelFile, reqs, health, rootResp>>

\* A POST /predict request of client c, with its file name, reaches its handler.
Arrive(c) ==
    /\ reqs[c].pc = "idle"
    /\ \E f \in ServiceFilenames :
          reqs' = [reqs EXCEPT ![c] = [IdleReq EXCEPT !.pc = "validate",
                                                      !.filename = f]]
    /\ UNCHANGED <<phase, modelFile, model, health, rootResp>>

\* predict_issue: the extension check.
PredictValidate(c) ==
    /\ reqs[c].pc = "validate"
    /\ LET file_ext == splitext(reqs[c].filename)[2]
       IN  reqs' = [reqs EXCEPT ![c] =
              IF ~ExtensionAllowed(file_ext)
              THEN [@ EXCEPT !.pc = "done",
                             !.response = ErrorResponse(
                                 HTTPException(HTTP_400_BAD_REQUEST,
                                               "Invalid file type", ""))]
              ELSE [@ EXCEPT !.pc = "read"]]
    /\ UNCHANGED <<phase, modelFile, model, health, rootResp>>

\* predict_issue: image_bytes = await file.read(), the uploaded body.
PredictRead(c) ==
    /\ reqs[c].pc = "read"
    /\ \E b \in ServiceBodies :
          reqs' = [reqs EXCEPT ![c] = [@ EXCEPT !.pc = "check",
                                                !.image_bytes = b,
                                                !.calls = @ \o <<"file.read">>]]
    /\ UNCHANGED <<phase, modelFile, model, health, rootResp>>

\* predict_issue: the empty-upload check; its HTTPException is raised inside
\* the try block and passes through the except clauses.
PredictCheckEmpty(c) ==
    /\ reqs[c].pc = "check"
    /\ reqs' = [reqs EXCEPT ![c] =
          IF IsEmptyUpload(reqs[c].image_bytes)
          THEN [@ EXCEPT !.pc = "done",
                         !.response = ErrorResponse(HandleException(
                             HTTPException(HTTP_400_BAD_REQUEST,
                                           "Empty file uploaded", "")))]
          ELSE [@ EXCEPT !.pc = "preprocess"]]
    /\ UNCHANGED <<phase, modelFile, model, health, rootResp>>

\* predict_issue: image_array = preprocess_image(image_bytes)
PredictPreprocess(c) ==
    /\ reqs[c].pc = "preprocess"
    /\ LET r == preprocess_image(reqs[c].image_bytes)
       IN  reqs' = [reqs EXCEPT ![c] =
              IF r.raised
              THEN [@ EXCEPT !.pc = "done",
                             !.calls = @ \o r.calls,
                             !.response = ErrorResponse(HandleException(r.exc))]
              ELSE [@ EXCEPT !.pc = "predict",
                             !.calls = @ \o r.calls,
                             !.image_array = r.value]]
    /\ UNCHANGED <<phase, modelFile, model, health, rootResp>>

\* predict_issue: result = predict_issue_and_severity(image_array)
PredictInfer(c) ==
    /\ reqs[c].pc = "predict"
    /\ LET r == predict_issue_and_severity(model, reqs[c].image_array)
       IN  reqs' = [reqs EXCEPT ![c] =
              IF r.raised
              THEN [@ EXCEPT !.pc = "done",
                             !.calls = @ \o r.calls,
                             !.response = ErrorResponse(HandleException(r.exc))]
              ELSE [@ EXCEPT !.pc = "respond",
                             !.calls = @ \o r.calls,
                             !.result = r.value]]
    /\ UNCHANGED <<phase, modelFile, model, health, rootResp>>

\* predict_issue: return PredictionResponse(...), without severity_confidence.
PredictRespond(c) ==
    /\ reqs[c].pc = "respond"
    /\ reqs' = [reqs EXCEPT ![c] =
          [@ EXCEPT !.pc = "done",
                    !.response = [status |-> HTTP_200_OK,
                                  issue_type |-> reqs[c].result.issue_type,
                                  severity |-> reqs[c].result.severity,
                                  confidence |-> reqs[c].result.confidence]]]
    /\ UNCHANGED <<phase, modelFile, model, health, rootResp>>

\* The response of client c's request is sent; the request's locals are gone.
Complete(c) ==
    /\ reqs[c].pc = "done"
    /\ reqs' = [reqs EXCEPT ![c] = IdleReq]
    /\ UNCHANGED <<phase, modelFile, model, health, rootResp>>

\* Variant of health_check: the handler drops the global model handle.
health_check_resets ==
    /\ health' = HealthResponse(model)
    /\ model' = None
    /\ <<health', model'>> # <<health, model>>
    /\ UNCHANGED <<phase, modelFile, reqs, rootResp>>

\* GET /health
health_check ==
    /\ health' = HealthResponse(model)
    /\ health' # health
    /\ UNCHANGED <<phase, modelFile, model, reqs, rootResp>>

\* GET /
root ==
    /\ rootResp' = [service |-> "Civic Issue Detection API", version |-> "1.0.0"]
    /\ rootResp' # rootResp
    /\ UNCHANGED <<phase, modelFile, model, reqs, health>>

\* ----------------------------------------------------------- specification
Init ==
    /\ phase = "starting"
    /\ modelFile \in ModelFiles
    /\ model = None
    /\ reqs = [c \in Clients |-> IdleReq]
    /\ health = None
    /\ rootResp = None

\* The server dispatches requests only while it serves.
Next ==
    \/ load_model
    \/ /\ phase = "serving"
       /\ \/ \E c \in Clients : Arrive(c)
          \/ \E c \in Clients : PredictValidate(c)
          \/ \E c \in Clients : PredictRead(c)
          \/ \E c \in Clients : PredictCheckEmpty(c)
          \/ \E c \in Clients : PredictPreprocess(c)
          \/ \E c \in Clients : PredictInfer(c)
          \/ \E c \in Clients : PredictRespond(c)
          \/ \E c \in Clients : Complete(c)
          \/ health_check
          \/ root

Spec == Init /\ [][Next]_vars

\* ---------------------------------------------------- direct invocation
\* The module imported and its functions called one at a time without the
\* server's startup gate (a test harness, or a server run with the lifespan
\* protocol off): the handlers run whatever the hook did, or before it.
NextDirect ==
    \/ load_model
    \/ Arrive(1)
    \/ PredictValidate(1)
    \/ PredictRead(1)
    \/ PredictCheckEmpty(1)
    \/ PredictPreprocess(1)
    \/ PredictInfer(1)
    \/ PredictRespond(1)
    \/ Complete(1)
    \/ health_check
    \/ root

SpecDirect == Init /\ [][NextDirect]_vars

\* ------------------------------------------------ the decoder on its own
Vectors(n) == [1 .. n -> 0 .. MaxProb]

\* Networks whose heads have the trained sizes, with every output vector.
DecodeNetworks ==
    { Network(o, i, v, FALSE) :
        o \in {"dict", "list"},
        i \in Vectors(Len(ISSUE_CLASSES)),
        v \in Vectors(Len(SEVERITY_CLASSES)) }

\* A request of client 1 that has read and preprocessed the upload b.
Preprocessed(b) ==
    [IdleReq EXCEPT !.pc = "predict",
                    !.filename = <<"a", ".", "j", "p", "g">>,
                    !.image_bytes = b,
                    !.image_array = preprocess_image(b).value,
                    !.calls = <<"file.read">> \o preprocess_image(b).calls]

\* The serving service about to decode one request, for every network.
InitDecode ==
    /\ phase = "serving"
    /\ \E n \in DecodeNetworks :
          /\ modelFile = ModelFile(TRUE, TRUE, TRUE, n)
          /\ model = n
    /\ reqs = [c \in Clients |-> IF c = 1 THEN Preprocessed(GreyImage) ELSE IdleReq]
    /\ health = None
    /\ rootResp = None

NextDecode ==
    \/ \E c \in Clients : PredictInfer(c)
    \/ \E c \in Clients : PredictRespond(c)

SpecDecode == InitDecode /\ [][NextDecode]_vars

\* -------------------------------------------- the normalizer on its own
Modes == {"1", "L", "RGB", "RGBA", "CMYK", "I"}

\* Sample values an image of a mode may hold.
Levels(mode) ==
    CASE mode = "1" -> {0, 255}
      [] mode = "I" -> {-1, 0, 255, 256, 65535}
      [] OTHER -> {0, 128, 255}

\* Non-empty uploads: bytes that are no image, and images of every mode, size
\* and content, whole or truncated.
AllBodies ==
    {GarbageBody}
    \cup UNION { { Bytes(2, f, m, w, h, pix) :
                     f \in {"image", "truncated"},
                     w \in 1 .. MaxDim, h \in 1 .. MaxDim,
                     pix \in (SUBSET Levels(m)) \ {{}} } : m \in Modes }

\* The serving service about to preprocess one upload, for every upload.
InitPre ==
    /\ phase = "serving"
    /\ modelFile = ModelFile(TRUE, TRUE, TRUE,
                             Network("dict", <<1, 2, 1, 1>>, <<0, 1, 2>>, FALSE))
    /\ model = modelFile.net
    /\ \E b \in AllBodies :
          reqs = [c \in Clients |->
                    IF c = 1
                    THEN [IdleReq EXCEPT !.pc = "preprocess",
                                         !.filename = <<"a", ".", "p", "n", "g">>,
                                         !.image_bytes = b,
                                         !.calls = <<"file.read">>]
                    ELSE IdleReq]
    /\ health = None
    /\ rootResp = None

NextPre == \E c \in Clients : PredictPreprocess(c)

SpecPre == InitPre /\ [][NextPre]_vars

\* ================================================================== claims
Range(q) == {q[i] : i \in DOMAIN q}

\* The position of the first call named x in the sequence q, 0 when absent.
FirstAt(q, x) ==
    IF x \in Range(q) THEN CHOOSE i \in DOMAIN q : q[i] = x /\ \A j \in 1 .. (i - 1) : q[j] # x
    ELSE 0

\* str.lower on the letters that occur in the file names.
Lower(ch) ==
    CASE ch = "J" -> "j" [] ch = "P" -> "p" [] ch = "G" -> "g"
      [] ch = "E" -> "e" [] ch = "N" -> "n" [] ch = "T" -> "t"
      [] ch = "X" -> "x" [] ch = "A" -> "a" [] OTHER -> ch

LowerStr(str) == [i \in DOMAIN str |-> Lower(str[i])]

\* The extensions the interface allows, case-insensitively.
InterfaceExtensions ==
    { <<".", "j", "p", "g">>, <<".", "j", "p", "e", "g">>, <<".", "p", "n", "g">> }

FileExt(c) == splitext(reqs[c].filename)[2]
HasAllowedExt(c) == FileExt(c) \in ALLOWED_EXTENSIONS
Answered(c) == reqs[c].pc = "done"
HasRead(c) == reqs[c].image_bytes # None
Called(c, x) == x \in Range(reqs[c].calls)

\* C1: a /predict request with an allowed extension and a zero-byte body is
\* answered 400, and neither image.resize nor model.predict is called for it.
C1_EmptyUploadIs400 ==
    \A c \in Clients :
        (Answered(c) /\ HasAllowedExt(c) /\ HasRead(c)
                     /\ reqs[c].image_bytes.len = 0)
        => /\ reqs[c].response.status = HTTP_400_BAD_REQUEST
           /\ ~Called(c, "image.resize")
           /\ ~Called(c, "model.predict")

\* C2: a /predict request whose extension, lower-cased, is .jpg, .jpeg or .png
\* is never answered with the 400 "Invalid file type" error.
C2_ExtensionCaseInsensitive ==
    \A c \in Clients :
        (Answered(c) /\ LowerStr(FileExt(c)) \in InterfaceExtensions)
        => ~(/\ reqs[c].response.status = HTTP_400_BAD_REQUEST
             /\ reqs[c].response.detail = "Invalid file type")

\* The loaded network answers, with a head whose length is not its class count.
HeadMismatch ==
    /\ model # None
    /\ ~model.fails
    /\ \/ Len(model.issue) # Len(ISSUE_CLASSES)
       \/ Len(model.severity) # Len(SEVERITY_CLASSES)

\* C3: when a head's vector has another length than its class list, decoding
\* fails for every such output: no label is returned and /predict answers 500.
C3_LengthMismatchAlwaysFails ==
    \A c \in Clients :
        (HeadMismatch /\ Called(c, "model.predict"))
        => /\ reqs[c].result = None
           /\ reqs[c].pc = "done"
           /\ reqs[c].response.status = HTTP_500_INTERNAL_SERVER_ERROR

\* The lowest index (0-based) that holds the maximum of v.
FirstMaxIndex(v) ==
    (CHOOSE i \in DOMAIN v : /\ \A j \in DOMAIN v : v[j] <= v[i]
                             /\ \A j \in 1 .. (i - 1) : v[j] < v[i]) - 1

\* The network m presenting the same vectors in the other output shape.
OtherShape(m) == [m EXCEPT !.outputs = IF @ = "dict" THEN "list" ELSE "dict"]

\* C4: for an issue vector of length 4 and a severity vector of length 3, in
\* either output shape, the decoder returns the labels at the lowest indices
\* holding the maxima and the issue vector's value there as the confidence, and
\* the other output shape gives the same result for the same vectors.
C4_DecodeArgmaxBothShapes ==
    \A c \in Clients :
        (/\ Called(c, "model.predict")
         /\ ~model.fails
         /\ Len(model.issue) = 4
         /\ Len(model.severity) = 3)
        => /\ reqs[c].result # None
           /\ reqs[c].result.issue_type = ISSUE_CLASSES[FirstMaxIndex(model.issue) + 1]
           /\ reqs[c].result.severity
                = SEVERITY_CLASSES[FirstMaxIndex(model.severity) + 1]
           /\ reqs[c].result.confidence = model.issue[FirstMaxIndex(model.issue) + 1]
           /\ reqs[c].result
                = predict_issue_and_severity(OtherShape(model),
                                             reqs[c].image_array).value
           /\ Answered(c) =>
                /\ reqs[c].response.status = HTTP_200_OK
                /\ reqs[c].response.issue_type = reqs[c].result.issue_type
                /\ reqs[c].response.severity = reqs[c].result.severity
                /\ reqs[c].response.confidence = reqs[c].result.confidence

\* C4 witness: a tie for the maximum in both heads has been decoded.
C4_Witness ==
    /\ Answered(1)
    /\ reqs[1].result # None
    /\ model.outputs = "list"
    /\ model.issue = <<1, 2, 2, 0>>
    /\ model.severity = <<1, 0, 1>>

\* The status the error taxonomy gives the request of client c once answered.
TaxonomyStatus(c) ==
    IF ~HasAllowedExt(c) THEN HTTP_400_BAD_REQUEST
    ELSE IF reqs[c].image_bytes.len = 0 THEN HTTP_400_BAD_REQUEST
    ELSE IF reqs[c].image_bytes.format # "image" THEN HTTP_400_BAD_REQUEST
    ELSE IF model = None THEN HTTP_500_INTERNAL_SERVER_ERROR
    ELSE IF model.fails \/ HeadMismatch THEN HTTP_500_INTERNAL_SERVER_ERROR
    ELSE HTTP_200_OK

\* C5: every answered /predict request has status 200, 400 or 500, and it is
\* the status the taxonomy gives its failure class (400 for a bad extension,
\* an empty upload or an undecodable image; 500 for a model failure).
C5_StatusFollowsTaxonomy ==
    \A c \in Clients :
        Answered(c)
        => /\ reqs[c].response.status
                \in {HTTP_200_OK, HTTP_400_BAD_REQUEST, HTTP_500_INTERNAL_SERVER_ERROR}
           /\ reqs[c].response.status = TaxonomyStatus(c)

\* C6: model.predict is called for a request only after its extension check,
\* its non-empty check and its preprocessing have succeeded, in that order; a
\* request with a disallowed extension is answered 400 with no read of the
\* body, no preprocessing and no call of the model.
C6_InferenceOnlyAfterChecks ==
    \A c \in Clients :
        /\ Called(c, "model.predict")
           => /\ HasAllowedExt(c)
              /\ HasRead(c)
              /\ reqs[c].image_bytes.len > 0
              /\ reqs[c].image_array # None
              /\ 0 < FirstAt(reqs[c].calls, "file.read")
              /\ FirstAt(reqs[c].calls, "file.read")
                   < FirstAt(reqs[c].calls, "Image.open")
              /\ FirstAt(reqs[c].calls, "Image.open")
                   < FirstAt(reqs[c].calls, "image.resize")
              /\ FirstAt(reqs[c].calls, "image.resize")
                   < FirstAt(reqs[c].calls, "model.predict")
        /\ (reqs[c].pc \notin {"idle", "validate"} /\ ~HasAllowedExt(c))
           => /\ Answered(c)
              /\ reqs[c].response.status = HTTP_400_BAD_REQUEST
              /\ ~HasRead(c)
              /\ reqs[c].image_array = None
              /\ reqs[c].calls = <<>>

\* C6 witness: one request has had its inference, another was refused for its
\* extension.
C6_Witness ==
    /\ Called(1, "model.predict")
    /\ Answered(2)
    /\ ~HasAllowedExt(2)

\* C7: every /health response has model_loaded = true and status "healthy"
\* exactly when the global model is set at the call, model_loaded = false and
\* status "model_not_loaded" exactly when it is not; and once a response said
\* "healthy" no later one says "model_not_loaded".
C7_HealthTracksModel ==
    /\ [](health # None =>
            /\ health.model_loaded <=> health.status = "healthy"
            /\ ~health.model_loaded <=> health.status = "model_not_loaded")
    /\ [][health' # health =>
            /\ health'.model_loaded <=> model # None
            /\ health'.status = "healthy" <=> model # None
            /\ health'.status = "model_not_loaded" <=> model = None]_vars
    /\ [][(health # None /\ health.status = "healthy")
            => health'.status = "healthy"]_vars

\* C7 witness: /health has answered "healthy" with the model loaded.
C7_Witness ==
    /\ health # None
    /\ health.status = "healthy"
    /\ model # None

\* C8: when the model file is missing or does not load, the hook raises and
\* the service does not serve; no request is handled while the global model is
\* unset, so no response reports "Model not loaded" or "model_not_loaded".
C8_NoServiceWithoutModel ==
    /\ (phase # "starting" /\ (~modelFile.exists \/ ~modelFile.loads))
       => phase = "exited"
    /\ phase = "serving" => model # None
    /\ \A c \in Clients :
          /\ reqs[c].pc # "idle" => model # None
          /\ Answered(c) /\ reqs[c].response.status = HTTP_500_INTERNAL_SERVER_ERROR
             => reqs[c].response.cause
                  # "Model not loaded. Please restart the service."
    /\ health # None => health.status # "model_not_loaded"
    /\ (health # None \/ rootResp # None) => model # None

\* C8 witness: the startup hook has raised for a missing model file.
C8_Witness ==
    /\ phase = "exited"
    /\ ~modelFile.exists
    /\ model = None

\* The response of predict_issue run start to end on one request alone.
SequentialResponse(filename, image_bytes, m) ==
    IF splitext(filename)[2] \notin ALLOWED_EXTENSIONS
    THEN [status |-> HTTP_400_BAD_REQUEST, detail |-> "Invalid file type", cause |-> ""]
    ELSE IF image_bytes.len = 0
    THEN [status |-> HTTP_500_INTERNAL_SERVER_ERROR, detail |-> "Unexpected error",
          cause |-> "Empty file uploaded"]
    ELSE IF preprocess_image(image_bytes).raised
    THEN [status |-> HTTP_400_BAD_REQUEST, detail |-> "Image processing error",
          cause |-> "Image preprocessing failed"]
    ELSE LET r == predict_issue_and_severity(m, preprocess_image(image_bytes).value)
         IN  IF r.raised
             THEN [status |-> HTTP_500_INTERNAL_SERVER_ERROR,
                   detail |-> "Model inference error", cause |-> r.exc.msg]
             ELSE [status |-> HTTP_200_OK, issue_type |-> r.value.issue_type,
                   severity |-> r.value.severity, confidence |-> r.value.confidence]

\* C9: the global model is assigned only by the startup hook, once, from
\* unset; no request handler changes it under any interleaving; and every
\* response is the one its own file name and bytes and the model determine.
C9_ModelSetOnceResponsesIndependent ==
    /\ [][model' # model => (model = None /\ phase = "starting")]_vars
    /\ [][phase = "serving" => model' = model]_vars
    /\ [](\A c \in Clients :
            Answered(c) => reqs[c].response
                             = SequentialResponse(reqs[c].filename,
                                                  reqs[c].image_bytes, model))

\* C9 witness: two requests are answered differently by the one model while
\* /health has been served.
C9_Witness ==
    /\ Answered(1)
    /\ Answered(2)
    /\ reqs[1].response.status = HTTP_200_OK
    /\ reqs[2].response.status = HTTP_400_BAD_REQUEST
    /\ health # None

\* C10: preprocess_image returns, for every input that decodes, an array of
\* shape [1, 224, 224, 3] whose values are 8-bit intensities over 255, within
\* [0, 1]; for every input that does not decode it raises ValueError (answered
\* 400) and returns no array.
C10_TensorShapeAndRange ==
    \A c \in Clients :
        reqs[c].pc \in {"predict", "done"}
        => IF reqs[c].image_bytes.format = "image"
           THEN /\ reqs[c].pc = "predict"
                /\ reqs[c].image_array # None
                /\ reqs[c].image_array.shape = <<1, 224, 224, 3>>
                /\ \A v \in reqs[c].image_array.vals :
                      /\ v[2] = 255
                      /\ v[1] \in 0 .. 255
                      /\ 0 <= v[1] /\ v[1] <= v[2]
           ELSE /\ reqs[c].pc = "done"
                /\ reqs[c].image_array = None
                /\ reqs[c].response.status = HTTP_400_BAD_REQUEST
                /\ reqs[c].response.cause = "Image preprocessing failed"

\* C10 witness: a 32-bit image with samples outside 0..255 has been normalised.
C10_Witness ==
    /\ reqs[1].pc = "predict"
    /\ reqs[1].image_bytes.mode = "I"
    /\ 65535 \in reqs[1].image_bytes.pix
    /\ -1 \in reqs[1].image_bytes.pix

====
